---- MODULE Spec2Model ----
(***************************************************************************)
(* A model of brother_ql_web.py: the label geometry resolver               *)
(* (get_label_context), the fixed-text composer (create_label_im), the     *)
(* combined text + QR composer (_compose_bin_label_image), the in-memory   *)
(* composition cache (BIN_LABEL_CACHE) and the two bin-label handlers.     *)
(*                                                                         *)
(* Representation.                                                         *)
(*  - A text is a sequence of paragraphs (the pieces between newlines); a  *)
(*    paragraph is the sequence of the lengths of its words.  <<>> is an   *)
(*    empty paragraph; << <<>> >> is the text " " the handlers substitute  *)
(*    for an empty text.                                                   *)
(*  - Lengths are pixels, time is in whole seconds, a margin percentage is *)
(*    an integer, the QR scale is in thousandths (900 is 0.9).             *)
(*  - A Python dict is the sequence of its entries in insertion order.     *)
(*  - The float products the code truncates with int() are computed in     *)
(*    exact integer arithmetic where the two agree on the whole modelled   *)
(*    range, and corrected by a table where IEEE doubles fall short        *)
(*    (FloatShort).                                                        *)
(***************************************************************************)
EXTENDS Integers, Sequences, FiniteSets, TLC

VARIABLES
    BIN_LABEL_CACHE,  \* the module-level dict: entries [key, png, ts]
    now,              \* the wall clock time.time() reads
    resp,             \* the last bin-label response a handler returned
    thr,              \* per thread: the position and locals of its cache call
    written,          \* history: the entries ever stored in the cache
    cs,               \* the running _compose_bin_label_image call
    geo,              \* the running fixed-text request
    fill,             \* history: how many distinct texts were previewed, and
                      \* whether one was previewed again
    media             \* the running _map_media_to_label_identifier call

vars == <<BIN_LABEL_CACHE, now, resp, thr, written, cs, geo, fill, media>>

----------------------------------------------------------------------------
(* Small helpers *)

Max(a, b) == IF a >= b THEN a ELSE b

Min(a, b) == IF a <= b THEN a ELSE b

Abs(a) == IF a >= 0 THEN a ELSE -a

\* Python's a // b for b > 0 (floor division).
FloorDiv(a, b) == IF a >= 0 THEN a \div b ELSE -((-a + b - 1) \div b)

\* Python's int(a / b) for b > 0 (truncation toward zero).
TruncDiv(a, b) == IF a >= 0 THEN a \div b ELSE -((-a) \div b)

----------------------------------------------------------------------------
(* The label catalog: brother_ql.devicedependent.label_type_specs *)

ENDLESS_LABEL == "endless"

DIE_CUT_LABEL == "die_cut"

ROUND_DIE_CUT_LABEL == "round_die_cut"

LabelSpec(k, tw, tl, pw, ph) ==
    [kind |-> k, tape_size |-> <<tw, tl>>, dots_printable |-> <<pw, ph>>]

\* An endless label's catalog entry fixes the printable width only: its
\* length (tape_size[2], dots_printable[2]) is 0.
label_type_specs ==
    [ls \in {"12", "29", "38", "50", "54", "62", "62red", "102",
             "17x54", "17x87", "23x23", "29x42", "29x90", "39x90", "39x48",
             "52x29", "62x29", "62x100", "102x51", "102x152",
             "d12", "d24", "d58"} |->
       CASE ls = "12"      -> LabelSpec(ENDLESS_LABEL, 12, 0, 106, 0)
         [] ls = "29"      -> LabelSpec(ENDLESS_LABEL, 29, 0, 306, 0)
         [] ls = "38"      -> LabelSpec(ENDLESS_LABEL, 38, 0, 413, 0)
         [] ls = "50"      -> LabelSpec(ENDLESS_LABEL, 50, 0, 554, 0)
         [] ls = "54"      -> LabelSpec(ENDLESS_LABEL, 54, 0, 590, 0)
         [] ls = "62"      -> LabelSpec(ENDLESS_LABEL, 62, 0, 696, 0)
         [] ls = "62red"   -> LabelSpec(ENDLESS_LABEL, 62, 0, 696, 0)
         [] ls = "102"     -> LabelSpec(ENDLESS_LABEL, 102, 0, 1164, 0)
         [] ls = "17x54"   -> LabelSpec(DIE_CUT_LABEL, 17, 54, 165, 566)
         [] ls = "17x87"   -> LabelSpec(DIE_CUT_LABEL, 17, 87, 165, 956)
         [] ls = "23x23"   -> LabelSpec(DIE_CUT_LABEL, 23, 23, 202, 202)
         [] ls = "29x42"   -> LabelSpec(DIE_CUT_LABEL, 29, 42, 306, 425)
         [] ls = "29x90"   -> LabelSpec(DIE_CUT_LABEL, 29, 90, 306, 991)
         [] ls = "39x90"   -> LabelSpec(DIE_CUT_LABEL, 38, 90, 413, 991)
         [] ls = "39x48"   -> LabelSpec(DIE_CUT_LABEL, 39, 48, 425, 495)
         [] ls = "52x29"   -> LabelSpec(DIE_CUT_LABEL, 52, 29, 578, 271)
         [] ls = "62x29"   -> LabelSpec(DIE_CUT_LABEL, 62, 29, 696, 271)
         [] ls = "62x100"  -> LabelSpec(DIE_CUT_LABEL, 62, 100, 696, 1109)
         [] ls = "102x51"  -> LabelSpec(DIE_CUT_LABEL, 102, 51, 1164, 526)
         [] ls = "102x152" -> LabelSpec(DIE_CUT_LABEL, 102, 153, 1164, 1660)
         [] ls = "d12"     -> LabelSpec(ROUND_DIE_CUT_LABEL, 12, 12, 94, 94)
         [] ls = "d24"     -> LabelSpec(ROUND_DIE_CUT_LABEL, 24, 24, 236, 236)
         [] ls = "d58"     -> LabelSpec(ROUND_DIE_CUT_LABEL, 58, 58, 618, 618)]

label_sizes == DOMAIN label_type_specs

\* The order label_type_specs.items() yields the entries in: the order of the
\* catalog.
label_order ==
    << "12", "29", "38", "50", "54", "62", "62red", "102",
       "17x54", "17x87", "23x23", "29x42", "29x90", "39x90", "39x48",
       "52x29", "62x29", "62x100", "102x51", "102x152", "d12", "d24", "d58" >>

\* An identifier as the string it is: its characters.
IdentChars(ident) ==
    CASE ident = "12"      -> <<"1", "2">>
      [] ident = "29"      -> <<"2", "9">>
      [] ident = "38"      -> <<"3", "8">>
      [] ident = "50"      -> <<"5", "0">>
      [] ident = "54"      -> <<"5", "4">>
      [] ident = "62"      -> <<"6", "2">>
      [] ident = "62red"   -> <<"6", "2", "r", "e", "d">>
      [] ident = "102"     -> <<"1", "0", "2">>
      [] ident = "17x54"   -> <<"1", "7", "x", "5", "4">>
      [] ident = "17x87"   -> <<"1", "7", "x", "8", "7">>
      [] ident = "23x23"   -> <<"2", "3", "x", "2", "3">>
      [] ident = "29x42"   -> <<"2", "9", "x", "4", "2">>
      [] ident = "29x90"   -> <<"2", "9", "x", "9", "0">>
      [] ident = "39x90"   -> <<"3", "9", "x", "9", "0">>
      [] ident = "39x48"   -> <<"3", "9", "x", "4", "8">>
      [] ident = "52x29"   -> <<"5", "2", "x", "2", "9">>
      [] ident = "62x29"   -> <<"6", "2", "x", "2", "9">>
      [] ident = "62x100"  -> <<"6", "2", "x", "1", "0", "0">>
      [] ident = "102x51"  -> <<"1", "0", "2", "x", "5", "1">>
      [] ident = "102x152" -> <<"1", "0", "2", "x", "1", "5", "2">>
      [] ident = "d12"     -> <<"d", "1", "2">>
      [] ident = "d24"     -> <<"d", "2", "4">>
      [] ident = "d58"     -> <<"d", "5", "8">>

\* FONTS: the (family, style) pairs get_fonts() found.
FONTS == {"DejaVu Serif (Book)", "DejaVu Sans (Bold)"}

----------------------------------------------------------------------------
(* get_label_context *)

\* The (font_size, |percent|) pairs, font_size in 1..500 and percent in
\* 0..100, whose product int(font_size * (float(percent)/100.)) falls one short
\* of the exact quotient: percent/100. is not a double, so e.g.
\* 100 * 0.29 = 28.999999999999996.
FloatShort ==
    { <<50, 58>>, <<90, 70>>, <<100, 29>>, <<100, 57>>, <<100, 58>>,
      <<150, 82>>, <<170, 70>>, <<180, 35>>, <<180, 70>>, <<200, 29>>,
      <<200, 57>>, <<200, 58>>, <<300, 41>>, <<300, 57>>, <<300, 69>>,
      <<300, 82>>, <<330, 70>>, <<340, 35>>, <<340, 70>>, <<350, 70>>,
      <<360, 35>>, <<360, 70>>, <<400, 29>>, <<400, 57>>, <<400, 58>> }

\* Mutant: the product is rounded to the nearest integer (halves upward).
MarginRound(font_size, pct) ==
    LET mag == (2 * font_size * Abs(pct) + 100) \div 200
    IN  IF pct >= 0 THEN mag ELSE -mag

\* int(font_size * (float(pct)/100.)): the double product, truncated toward 0.
MarginPx(font_size, pct) ==
    LET mag == (font_size * Abs(pct)) \div 100
                 - (IF <<font_size, Abs(pct)>> \in FloatShort THEN 1 ELSE 0)
    IN  IF pct >= 0 THEN mag ELSE -mag

LookupError == [ok |-> FALSE, error |-> "LookupError"]

\* Mutant: the font is not looked up.
FontNotLookedUp(font_family) == TRUE

\* Lines 133-143: FONTS[family][style] is there (no KeyError).
FontFound(font_family) == font_family \in FONTS

\* Mutant: the orientation is not applied to the dimensions.
DimensionsUnrotated(label_size, orientation) ==
    LET dots == label_type_specs[label_size].dots_printable
    IN  IF dots[2] > dots[1] THEN <<dots[2], dots[1]>> ELSE dots

\* Lines 145-155: the printable dots of the size class, the longer side first,
\* swapped for the rotated orientation.
get_label_dimensions(label_size, orientation) ==
    LET dots == label_type_specs[label_size].dots_printable
        w0   == IF dots[2] > dots[1] THEN dots[2] ELSE dots[1]
        h0   == IF dots[2] > dots[1] THEN dots[1] ELSE dots[2]
    IN  IF orientation = "rotated" THEN <<h0, w0>> ELSE <<w0, h0>>

\* request: [text, code, label_size, font_size, font_family, align,
\*           orientation, margin_top, margin_bottom, margin_left, margin_right,
\*           qr_scale, auto_fit_text]
get_label_context(request) ==
    IF request.label_size \notin label_sizes THEN LookupError
    ELSE IF ~FontFound(request.font_family) THEN LookupError
    ELSE
      LET dims == get_label_dimensions(request.label_size,
                                       request.orientation)
      IN  [ok            |-> TRUE,
           text          |-> request.text,
           font_size     |-> request.font_size,
           font_path     |-> request.font_family,
           label_size    |-> request.label_size,
           kind          |-> label_type_specs[request.label_size].kind,
           align         |-> request.align,
           orientation   |-> request.orientation,
           margin_top    |-> MarginPx(request.font_size, request.margin_top),
           margin_bottom |-> MarginPx(request.font_size, request.margin_bottom),
           margin_left   |-> MarginPx(request.font_size, request.margin_left),
           margin_right  |-> MarginPx(request.font_size, request.margin_right),
           width         |-> dims[1],
           height        |-> dims[2]]

----------------------------------------------------------------------------
(* Text metrics: Pillow's textbbox / multiline_textbbox on a FreeType font. *)
(* The glyph metrics are the rasterizer's; the model takes a fixed-pitch    *)
(* face: every character advances half the font size (rounded up), a line   *)
(* of glyphs is as tall as the font size, lines are 4 pixels apart          *)
(* (Pillow's default spacing), and a line of blanks has an empty bounding   *)
(* box vertically (height 0).                                               *)

\* A line is its number of characters; 0 stands for the line " ".
LineChars(n) == IF n = 0 THEN 1 ELSE n

CharAdvance(size) == (size + 1) \div 2

\* dd.textbbox((0,0), cand, font=font): the width of one line.
LineWidth(n, size) == LineChars(n) * CharAdvance(size)

RECURSIVE MaxLineWidth(_, _)
MaxLineWidth(lines, size) ==
    IF lines = <<>> THEN 0
    ELSE Max(LineWidth(Head(lines), size), MaxLineWidth(Tail(lines), size))

\* multiline_textbbox of the lines: (width, height).
measure(lines, size) ==
    LET k == Len(lines)
    IN  <<MaxLineWidth(lines, size),
          (k - 1) * (size + 4) + (IF lines[k] = 0 THEN 0 ELSE size)>>

\* The characters of a paragraph: its words joined by single blanks.
RECURSIVE ParaChars(_)
ParaChars(words) ==
    IF words = <<>> THEN 0
    ELSE IF Len(words) = 1 THEN Head(words)
    ELSE Head(words) + 1 + ParaChars(Tail(words))

\* The unwrapped text as lines: one per paragraph, an empty one as " ".
RawLines(text) == [i \in 1..Len(text) |-> ParaChars(text[i])]

\* wrap_text_to_width's inner loop over the words of one paragraph; cur is the
\* line being filled (0: still empty).
RECURSIVE WrapWords(_, _, _, _)
WrapWords(words, cur, size, max_w) ==
    IF words = <<>> THEN <<cur>>
    ELSE LET w    == Head(words)
             cand == IF cur = 0 THEN w ELSE cur + 1 + w
         IN  IF LineWidth(cand, size) <= max_w \/ cur = 0
             THEN WrapWords(Tail(words), cand, size, max_w)
             ELSE <<cur>> \o WrapWords(Tail(words), w, size, max_w)

\* Greedy word wrap of every paragraph; no word is ever split.
RECURSIVE wrap_text_to_width(_, _, _)
wrap_text_to_width(raw_text, size, max_w) ==
    IF raw_text = <<>> THEN <<>>
    ELSE WrapWords(Head(raw_text), 0, size, max_w)
           \o wrap_text_to_width(Tail(raw_text), size, max_w)

----------------------------------------------------------------------------
(* create_label_im: the fixed-text composer *)

\* Mutant: the orientation tests of the canvas size are exchanged.
CanvasSizeSwapped(context, textsize) ==
    LET endless == context.kind = ENDLESS_LABEL
        w1 == IF context.orientation = "standard" /\ endless
              THEN textsize[1] + context.margin_left + context.margin_right
              ELSE context.width
        h1 == IF context.orientation = "rotated" /\ endless
              THEN textsize[2] + context.margin_top + context.margin_bottom
              ELSE context.height
    IN  <<Max(1, w1), Max(1, h1)>>

\* Lines 263-272: the canvas (width, height) for a text of size textsize.
CanvasSize(context, textsize) ==
    LET endless == context.kind = ENDLESS_LABEL
        w1 == IF context.orientation = "rotated" /\ endless
              THEN textsize[1] + context.margin_left + context.margin_right
              ELSE context.width
        h1 == IF context.orientation = "standard" /\ endless
              THEN textsize[2] + context.margin_top + context.margin_bottom
              ELSE context.height
    IN  <<Max(1, w1), Max(1, h1)>>

\* Mutant: the rotated placement is the standard one with the axes swapped.
OffsetsMirrored(context, textsize, width, height) ==
    LET diecut == context.kind \in {DIE_CUT_LABEL, ROUND_DIE_CUT_LABEL}
        vbias  == FloorDiv(height - textsize[2], 2)
                    + FloorDiv(context.margin_top - context.margin_bottom, 2)
        hbias  == FloorDiv(width - textsize[1], 2)
                    + FloorDiv(context.margin_left - context.margin_right, 2)
        hcent  == Max(FloorDiv(width - textsize[1], 2), 0)
        vcent  == Max(FloorDiv(height - textsize[2], 2), 0)
    IN  IF context.orientation = "standard"
        THEN <<hcent, IF diecut THEN vbias ELSE context.margin_top>>
        ELSE IF context.orientation = "rotated"
        THEN <<IF diecut THEN hbias ELSE context.margin_left, vcent>>
        ELSE <<0, 0>>

\* Lines 275-291: (horizontal_offset, vertical_offset) of the text.
Offsets(context, textsize, width, height) ==
    LET diecut == context.kind \in {DIE_CUT_LABEL, ROUND_DIE_CUT_LABEL}
        vbias  == FloorDiv(height - textsize[2], 2)
                    + FloorDiv(context.margin_top - context.margin_bottom, 2)
        hcent  == Max(FloorDiv(width - textsize[1], 2), 0)
    IN  IF context.orientation = "standard"
        THEN <<hcent, IF diecut THEN vbias ELSE context.margin_top>>
        ELSE IF context.orientation = "rotated"
        THEN <<IF diecut THEN hcent ELSE context.margin_left, vbias>>
        ELSE <<0, 0>>

create_label_im(context) ==
    LET textsize == measure(RawLines(context.text), context.font_size)
        canvas   == CanvasSize(context, textsize)
        offset   == Offsets(context, textsize, canvas[1], canvas[2])
    IN  [width    |-> canvas[1],
         height   |-> canvas[2],
         textsize |-> textsize,
         horizontal_offset |-> offset[1],
         vertical_offset   |-> offset[2]]

----------------------------------------------------------------------------
(* _compose_bin_label_image: the combined text + QR composer.              *)
(* The call is a record ("st"): its arguments, its locals and pc, the      *)
(* place it has reached: "grow" (the head of the auto-fit loop), "shrink"  *)
(* (the head of the overflow guard), "done" (the image is drawn).          *)

\* qrcode renders the payload; a payload over the code's capacity raises,
\* and the composer goes on without a QR block.
QrRenders(code) == code \notin {"", "overlong"}

\* int(max(1, qr_scale * x)), qr_scale in thousandths.
QrExtent(qr_scale, x) ==
    IF qr_scale * x >= 1000 THEN (qr_scale * x) \div 1000 ELSE 1

\* Lines 347-363: the first auto-fit step. The font size after it.
InitialFontSize(context, text_h0, auto_fit_text) ==
    LET base  == context.font_size
        avail == Max(1, context.height - context.margin_top
                                       - context.margin_bottom)
        m     == Max(1, text_h0)
    IN  IF auto_fit_text /\ context.kind = ENDLESS_LABEL
           /\ text_h0 < avail /\ base > 0
        THEN IF avail >= 3 * m
             THEN Max(10, (base * 294) \div 100)
             ELSE Max(10, (base * avail * 98) \div (m * 100))
        ELSE base

\* Lines 331-473: measure, first auto-fit step, QR, canvas, zones, wrap.
ComposeLayout(text, code, context, qr_scale, auto_fit_text) ==
    LET ml == context.margin_left
        mr == context.margin_right
        mt == context.margin_top
        mb == context.margin_bottom
        raw   == RawLines(text)
        dims0 == measure(raw, context.font_size)
        size0 == InitialFontSize(context, dims0[2], auto_fit_text)
        dims1 == measure(raw, size0)
        text_w0 == dims1[1]
        text_h0 == dims1[2]
        has_qr  == QrRenders(code)
        endless == context.kind = ENDLESS_LABEL
        std     == context.orientation = "standard"
        qr0 == IF ~endless THEN 0
               ELSE IF std THEN QrExtent(qr_scale, text_h0 + mt + mb)
               ELSE QrExtent(qr_scale, text_h0)
        width  == Max(1, IF endless /\ ~std
                         THEN text_w0 + (IF has_qr THEN qr0 + 8 ELSE 0)
                                + ml + mr
                         ELSE context.width)
        height == Max(1, IF endless /\ std
                         THEN Max(text_h0, qr0) + mt + mb
                         ELSE context.height)
        avail_w == Max(1, width - ml - mr)
        avail_h == Max(1, height - mt - mb)
        qr1 == Min(Max(1, qr0), avail_h)
        max_qr_w == Max(1, (avail_w * 6) \div 10)
        qr_size == IF ~has_qr THEN qr0
                   ELSE IF std THEN Min(qr1, max_qr_w) ELSE qr1
        gap    == IF has_qr /\ qr_size > 0 THEN 8 ELSE 0
        text_w == Max(1, avail_w - (qr_size + gap))
        wrapped == wrap_text_to_width(text, size0, text_w)
        dims    == measure(wrapped, size0)
    IN  [pc |-> IF auto_fit_text THEN "grow" ELSE "shrink",
         text |-> text, code |-> code, context |-> context,
         qr_scale |-> qr_scale, auto_fit_text |-> auto_fit_text,
         base_font_size |-> context.font_size, first_size |-> size0,
         has_qr |-> has_qr, qr_size |-> qr_size, gap |-> gap,
         width |-> width, height |-> height,
         avail_w |-> avail_w, avail_h |-> avail_h,
         text_x |-> ml + (qr_size + gap), text_y |-> mt,
         text_w |-> text_w, text_h |-> avail_h,
         font_size |-> size0, wrapped_text |-> wrapped,
         t_w |-> dims[1], t_h |-> dims[2],
         iters |-> 0, guard |-> 0, vx |-> 0, vy |-> 0]

\* Mutant: the auto-fit loop has no cap on its trials.
GrowUncapped(st) == 100 * st.t_h < 98 * st.text_h

\* The auto-fit loop's condition (line 474).
GrowCond(st) == st.iters < 12 /\ 100 * st.t_h < 98 * st.text_h

\* One trial of the auto-fit loop (lines 475-486); a rejected trial leaves
\* the loop and keeps the last accepted font (lines 488-489).
GrowTrial(st) ==
    LET next_size     == (st.font_size * 112) \div 100
        trial_wrapped == wrap_text_to_width(st.text, next_size, st.text_w)
        d             == measure(trial_wrapped, next_size)
    IN  IF d[2] <= st.text_h /\ d[1] <= st.text_w
        THEN [st EXCEPT !.iters = @ + 1, !.font_size = next_size,
                        !.wrapped_text = trial_wrapped,
                        !.t_w = d[1], !.t_h = d[2]]
        ELSE [st EXCEPT !.iters = @ + 1, !.pc = "shrink"]

\* The overflow guard's condition (line 493).
ShrinkCond(st) ==
    (st.t_h > st.text_h \/ st.t_w > st.text_w)
       /\ st.font_size > 10 /\ st.guard < 12

\* Mutant: the shrunk size has no floor of 10.
ShrinkNoFloor(st) ==
    LET size == (st.font_size * 9) \div 10
        w    == wrap_text_to_width(st.text, size, st.text_w)
        d    == measure(w, size)
    IN  [st EXCEPT !.guard = @ + 1, !.font_size = size,
                   !.wrapped_text = w, !.t_w = d[1], !.t_h = d[2]]

\* One pass of the overflow guard (lines 494-497).
ShrinkStep(st) ==
    LET size == Max(10, (st.font_size * 9) \div 10)
        w    == wrap_text_to_width(st.text, size, st.text_w)
        d    == measure(w, size)
    IN  [st EXCEPT !.guard = @ + 1, !.font_size = size,
                   !.wrapped_text = w, !.t_w = d[1], !.t_h = d[2]]

\* Lines 499-507: place the text block in its zone and draw it.
PlaceText(st) ==
    [st EXCEPT !.pc = "done",
       !.vy = st.text_y + Max(FloorDiv(st.text_h - st.t_h, 2), 0),
       !.vx = IF st.context.align = "left" THEN st.text_x
              ELSE IF st.context.align = "right"
                   THEN st.text_x + Max(st.text_w - st.t_w, 0)
              ELSE st.text_x + Max(FloorDiv(st.text_w - st.t_w, 2), 0)]

\* The next step of the call from where it stands.
ComposeStep(st) ==
    IF st.pc = "grow"
    THEN IF GrowCond(st) THEN GrowTrial(st) ELSE [st EXCEPT !.pc = "shrink"]
    ELSE IF ShrinkCond(st) THEN ShrinkStep(st) ELSE PlaceText(st)

RECURSIVE ComposeRun(_)
ComposeRun(st) == IF st.pc = "done" THEN st ELSE ComposeRun(ComposeStep(st))

\* What is drawn: the canvas, the QR block and the text block.
ImageOf(st) ==
    [size |-> <<st.width, st.height>>,
     qr   |-> IF st.has_qr /\ st.qr_size > 0
              THEN <<st.code, st.qr_size, st.context.margin_left,
                     st.context.margin_top
                       + Max(FloorDiv(st.avail_h - st.qr_size, 2), 0)>>
              ELSE <<>>,
     text |-> <<st.wrapped_text, st.context.font_path, st.font_size,
                st.context.align, st.vx, st.vy>>]

_compose_bin_label_image(text, code, context, qr_scale, auto_fit_text) ==
    ImageOf(ComposeRun(ComposeLayout(text, code, context, qr_scale,
                                     auto_fit_text)))

----------------------------------------------------------------------------
(* The composition cache: BIN_LABEL_CACHE and its two functions.           *)

CacheMax == 100

EvictCount == 20

MaxAgeSec == 120

\* The index of key k in dict d, 0 when d has no such key.
DictIndex(d, k) ==
    IF \E i \in 1..Len(d) : d[i].key = k
    THEN CHOOSE i \in 1..Len(d) : d[i].key = k
    ELSE 0

\* d[k] = v: an existing key keeps its place, a new key goes last.
DictSet(d, k, v) ==
    LET i == DictIndex(d, k)
        e == [key |-> k, png |-> v.png, ts |-> v.ts]
    IN  IF i = 0 THEN Append(d, e) ELSE [d EXCEPT ![i] = e]

\* d.pop(k, None): no error when k is absent.
DictPop(d, k) ==
    LET i == DictIndex(d, k)
    IN  IF i = 0 THEN d
        ELSE [j \in 1..(Len(d) - 1) |-> IF j < i THEN d[j] ELSE d[j + 1]]

\* Mutant: d.pop(k), which raises KeyError when k is absent.
PopStrict(d, k) == [cache |-> DictPop(d, k), raised |-> DictIndex(d, k) = 0]

\* The statement BIN_LABEL_CACHE.pop(k, None): the store it leaves and whether
\* it raised.
PopOrNone(d, k) == [cache |-> DictPop(d, k), raised |-> FALSE]

\* The place of entry i in sorted(d.items(), key=ts), counted from 0:
\* Python's sort is stable, so equal timestamps keep the dict's order.
TsRank(d, i) ==
    Cardinality({j \in 1..Len(d) :
                   d[j].ts < d[i].ts \/ (d[j].ts = d[i].ts /\ j < i)})

\* Mutant: the sort runs newest first (reverse=True).
NewestKeys(d, n) ==
    [r \in 1..Min(n, Len(d)) |->
        d[CHOOSE i \in 1..Len(d) : TsRank(d, i) = Len(d) - r].key]

\* Mutant: no sort, the first n keys of the dict are taken.
FirstKeys(d, n) == [r \in 1..Min(n, Len(d)) |-> d[r].key]

\* The keys of sorted(d.items(), key=ts)[:n].
OldestKeys(d, n) ==
    [r \in 1..Min(n, Len(d)) |->
        d[CHOOSE i \in 1..Len(d) : TsRank(d, i) = r - 1].key]

RECURSIVE PopAll(_, _)
PopAll(d, keys) ==
    IF keys = <<>> THEN d ELSE PopAll(DictPop(d, Head(keys)), Tail(keys))

\* The store after _cache_bin_label_png(key, png_bytes) at time t.
_cache_bin_label_png(d, key, png_bytes, t) ==
    LET d1 == DictSet(d, key, [png |-> png_bytes, ts |-> t])
    IN  IF Len(d1) > CacheMax
        THEN PopAll(d1, OldestKeys(d1, EvictCount))
        ELSE d1

\* Python's None, as a value of the kind png bytes are.
NonePng == [fmt |-> "None"]

\* Mutant: an entry of exactly the maximum age counts as too old.
ExpiredAtMaxAge(t, ts, max_age_sec) == t - ts >= max_age_sec

\* Whether an entry stored at ts is too old at time t (line 62).
Expired(t, ts, max_age_sec) == t - ts > max_age_sec

\* Mutant: a lookup that hits takes the entry out of the store.
GetAndConsume(d, key, t, max_age_sec) ==
    LET i == DictIndex(d, key)
    IN  IF i = 0 THEN [ret |-> NonePng, cache |-> d]
        ELSE IF Expired(t, d[i].ts, max_age_sec)
             THEN [ret |-> NonePng, cache |-> DictPop(d, key)]
             ELSE [ret |-> d[i].png, cache |-> DictPop(d, key)]

\* _get_cached_bin_label_png(key, max_age_sec) at time t: what it returns
\* and the store it leaves.
_get_cached_bin_label_png(d, key, t, max_age_sec) ==
    LET i == DictIndex(d, key)
    IN  IF i = 0 THEN [ret |-> NonePng, cache |-> d]
        ELSE IF Expired(t, d[i].ts, max_age_sec)
             THEN [ret |-> NonePng, cache |-> DictPop(d, key)]
             ELSE [ret |-> d[i].png, cache |-> d]

\* hashlib.sha256 of the canonical JSON of the payload: one key per payload.
_build_bin_label_cache_key(text, code, context, qr_scale) ==
    [sha256 |->
       [t |-> text, c |-> code, ls |-> context.label_size,
        fs |-> context.font_size, al |-> context.align,
        or |-> context.orientation,
        mt |-> context.margin_top, mb |-> context.margin_bottom,
        ml |-> context.margin_left, mr |-> context.margin_right,
        qr |-> qr_scale]]

\* image_to_png_bytes, and Image.open(BytesIO(png)).convert('RGB').
image_to_png_bytes(im) == [fmt |-> "PNG", pixels |-> im]

PngToImage(png) == png.pixels

----------------------------------------------------------------------------
(* The bin-label handlers *)

\* The raster encoder's input: create_label(qlr, im, label_size, red=...,
\* threshold=..., cut=True, rotate=...).
RasterData(im, context) ==
    [im     |-> im,
     label  |-> context.label_size,
     red    |-> context.label_size = "62red",
     rotate |-> IF context.kind = ENDLESS_LABEL
                THEN (IF context.orientation = "standard" THEN "0" ELSE "90")
                ELSE "auto"]

Idle == [op |-> "none"]

BadRequest(op, request) == [op |-> op, status |-> 400, request |-> request]

\* POST /api/preview/bin_label, served at time t
preview_bin_label(request, t) ==
    LET context == get_label_context(request)
    IN  /\ IF ~context.ok
           THEN /\ resp' = BadRequest("preview", request)
                /\ UNCHANGED BIN_LABEL_CACHE
           ELSE LET im  == _compose_bin_label_image(request.text, request.code,
                               context, request.qr_scale, request.auto_fit_text)
                    png_bytes == image_to_png_bytes(im)
                    key == _build_bin_label_cache_key(request.text,
                               request.code, context, request.qr_scale)
                IN  /\ BIN_LABEL_CACHE' =
                          _cache_bin_label_png(BIN_LABEL_CACHE, key, png_bytes, t)
                    /\ resp' = [op |-> "preview", status |-> 200,
                                request |-> request, key |-> key,
                                body |-> png_bytes]
        /\ now' = t
        /\ UNCHANGED <<thr, written, cs, geo, media>>

\* POST /api/print/prepare_bin_label, served at time t
prepare_bin_label(request, t) ==
    LET context == get_label_context(request)
    IN  /\ IF ~context.ok
           THEN /\ resp' = BadRequest("prepare", request)
                /\ UNCHANGED BIN_LABEL_CACHE
           ELSE LET key == _build_bin_label_cache_key(request.text,
                               request.code, context, request.qr_scale)
                    got == _get_cached_bin_label_png(BIN_LABEL_CACHE, key, t,
                                                     MaxAgeSec)
                    cached_png == got.ret
                    im  == IF cached_png # NonePng
                           THEN PngToImage(cached_png)
                           ELSE _compose_bin_label_image(request.text,
                                    request.code, context, request.qr_scale,
                                    request.auto_fit_text)
                IN  /\ BIN_LABEL_CACHE' = got.cache
                    /\ resp' = [op |-> "prepare", status |-> 200,
                                request |-> request, key |-> key,
                                cached_png |-> cached_png,
                                body |-> RasterData(im, context)]
        /\ now' = t
        /\ UNCHANGED <<thr, written, cs, geo, media>>

\* time.time() moves on by d seconds.
Tick(d) ==
    /\ now' = now + d
    /\ UNCHANGED <<BIN_LABEL_CACHE, resp, thr, written, cs, geo, fill, media>>

----------------------------------------------------------------------------
(* Spec: the handlers, one request at a time, on an empty or a full cache *)

\* The latest time the clock is run to, and the steps it moves by: two steps
\* put an entry at age 120 (60 + 60), 121 or 122.
MaxTime == 122

ClockSteps == {60, 61}

\* A one-word text of n characters.
Word(n) == << <<n>> >>

\* The request the form sends when only the text is filled in (the defaults
\* of lines 110-122, 590-595).
BaseRequest(text) ==
    [text |-> text, code |-> "", label_size |-> "62", font_size |-> 100,
     font_family |-> "DejaVu Serif (Book)", align |-> "center",
     orientation |-> "standard",
     margin_top |-> 24, margin_bottom |-> 45,
     margin_left |-> 35, margin_right |-> 35,
     qr_scale |-> 900, auto_fit_text |-> TRUE]

\* The entry preview_bin_label(request) stores at time t.
PreviewEntry(request, t) ==
    LET context == get_label_context(request)
    IN  [key |-> _build_bin_label_cache_key(request.text, request.code,
                                            context, request.qr_scale),
         png |-> image_to_png_bytes(
                     _compose_bin_label_image(request.text, request.code,
                         context, request.qr_scale, request.auto_fit_text)),
         ts  |-> t]

\* A full cache: the texts of 1..CacheMax characters previewed at time 0, the
\* first half of them previewed again at time 1.
FullCache ==
    [i \in 1..CacheMax |->
        PreviewEntry(BaseRequest(Word(i)), IF 2 * i <= CacheMax THEN 1 ELSE 0)]

Requests ==
    { BaseRequest(Word(5)),
      [BaseRequest(Word(5)) EXCEPT !.auto_fit_text = FALSE],
      BaseRequest(Word(60)),
      [BaseRequest(<< <<5, 5>> >>) EXCEPT !.code = "BIN-42",
                                          !.label_size = "62x29"] }

NoThreads == <<>>

NoCall == [pc |-> "idle"]

NoFill == [n |-> 0, again |-> FALSE]

Init ==
    /\ BIN_LABEL_CACHE \in {<<>>, FullCache}
    /\ now = 1
    /\ resp = Idle
    /\ thr = NoThreads
    /\ written = {}
    /\ cs = NoCall
    /\ geo = NoCall
    /\ fill = NoFill
    /\ media = NoCall

Preview == \E request \in Requests :
               preview_bin_label(request, now) /\ UNCHANGED fill

Prepare == \E request \in Requests :
               prepare_bin_label(request, now) /\ UNCHANGED fill

ClockTick == \E d \in ClockSteps : now + d <= MaxTime /\ Tick(d)

Next == Preview \/ Prepare \/ ClockTick

Spec == Init /\ [][Next]_vars

----------------------------------------------------------------------------
(* SpecFill: previews of ever new texts, one second apart, into an empty   *)
(* cache; the first text may be previewed again at any point.              *)

\* How many distinct texts are previewed.
MaxFill == 122

FillPreview ==
    /\ fill.n < MaxFill
    /\ preview_bin_label(BaseRequest(Word(fill.n + 1)), now + 1)
    /\ fill' = [fill EXCEPT !.n = @ + 1]

FillAgain ==
    /\ fill.n >= 1
    /\ preview_bin_label(BaseRequest(Word(1)), now)
    /\ fill' = [fill EXCEPT !.again = TRUE]

InitFill ==
    /\ BIN_LABEL_CACHE = <<>>
    /\ now = 0
    /\ resp = Idle
    /\ thr = NoThreads
    /\ written = {}
    /\ cs = NoCall
    /\ geo = NoCall
    /\ fill = NoFill
    /\ media = NoCall

NextFill == FillPreview \/ FillAgain

SpecFill == InitFill /\ [][NextFill]_vars

----------------------------------------------------------------------------
(* Properties of the cache *)

Keys(d) == {d[i].key : i \in 1..Len(d)}

KeyOfRequest(request) ==
    _build_bin_label_cache_key(request.text, request.code,
                               get_label_context(request), request.qr_scale)

\* A step of [Next]_vars in which a handler returned: the clock stood still
\* and resp' is the response.
PreviewStep == now' = now /\ resp'.op = "preview" /\ resp'.status = 200

PrepareStep == now' = now /\ resp'.op = "prepare" /\ resp'.status = 200

\* Byte strings a caller may store, the empty one among them.
SomeBytes == {[fmt |-> "PNG", pixels |-> <<>>], [fmt |-> "PNG", pixels |-> <<1>>]}

\* C1 (state part): in every store the handlers reach, a lookup right after
\* a put of any bytes under any key returns those bytes, also when the put
\* evicts; and the entry of the last preview is returned as previewed for as
\* long as it is not older than the maximum age.
C1_LookupAfterPut ==
    /\ \A request \in Requests : \A b \in SomeBytes :
         LET key == KeyOfRequest(request)
             d1  == _cache_bin_label_png(BIN_LABEL_CACHE, key, b, now)
         IN  _get_cached_bin_label_png(d1, key, now, MaxAgeSec).ret = b
    /\ (resp.op = "preview" /\ resp.status = 200) =>
         LET i == DictIndex(BIN_LABEL_CACHE, resp.key)
         IN  /\ i # 0
             /\ now - BIN_LABEL_CACHE[i].ts <= MaxAgeSec =>
                  _get_cached_bin_label_png(BIN_LABEL_CACHE, resp.key, now,
                                            MaxAgeSec).ret = resp.body

\* C1 (step part): a prepare_bin_label call that follows the preview of the
\* same request within the maximum age gets the previewed bytes from the
\* cache and rasters the image decoded from them.
C1_PrepareAfterPreview ==
    (/\ PrepareStep
     /\ resp.op = "preview" /\ resp.status = 200
     /\ resp'.request = resp.request
     /\ now - BIN_LABEL_CACHE[DictIndex(BIN_LABEL_CACHE, resp.key)].ts
          <= MaxAgeSec)
    => /\ resp'.cached_png = resp.body
       /\ resp'.body.im = PngToImage(resp.body)

\* C1: cache round trip: get right after put returns the bytes put, whatever
\* the store held (eviction included), so a prepare_bin_label call after a
\* preview_bin_label call for the same request uses the previewed bytes.
C1_CacheRoundTrip == []C1_LookupAfterPut /\ [][C1_PrepareAfterPreview]_vars

\* C1's case: a text new to a full cache was previewed (20 entries were
\* evicted, 81 are left) and the prepare call that followed hit the cache.
C1_Witness ==
    /\ resp.op = "prepare"
    /\ resp.request.code = "BIN-42"
    /\ resp.cached_png # NonePng
    /\ Len(BIN_LABEL_CACHE) = CacheMax - EvictCount + 1

\* C2: a lookup returns the stored bytes exactly when the key has an entry
\* whose age, now - storedAt, is at most maxAge (an age of exactly maxAge
\* still hits); otherwise it returns the miss value None.
C2_Expiry ==
    /\ [](\A request \in Requests : \A max_age \in {0, 60, MaxAgeSec} :
            LET key == KeyOfRequest(request)
                i   == DictIndex(BIN_LABEL_CACHE, key)
                ret == _get_cached_bin_label_png(BIN_LABEL_CACHE, key, now,
                                                 max_age).ret
            IN  IF i # 0 /\ now - BIN_LABEL_CACHE[i].ts <= max_age
                THEN ret = BIN_LABEL_CACHE[i].png
                ELSE ret = NonePng)
    /\ [][PrepareStep =>
            LET i == DictIndex(BIN_LABEL_CACHE, resp'.key)
            IN  resp'.cached_png =
                  IF i # 0 /\ now - BIN_LABEL_CACHE[i].ts <= MaxAgeSec
                  THEN BIN_LABEL_CACHE[i].png
                  ELSE NonePng]_vars

\* C2's case: a prepare call found its entry at the age of exactly 120
\* seconds and got its bytes.
C2_Witness ==
    /\ resp.op = "prepare"
    /\ resp.cached_png # NonePng
    /\ \E i \in 1..Len(BIN_LABEL_CACHE) :
         /\ BIN_LABEL_CACHE[i].key = resp.key
         /\ now - BIN_LABEL_CACHE[i].ts = MaxAgeSec

\* The entries of d whose key d2 no longer holds.
Gone(d, d2) == {i \in 1..Len(d) : d[i].key \notin Keys(d2)}

\* C4: a prepare call never consumes an entry: a lookup that hits leaves the
\* store as it was, a further prepare call for the same key within the
\* maximum age gets the same bytes again, and an entry leaves the store only
\* by a lookup that finds it over age or by a put that evicts the oldest.
C4_PrepareKeepsEntry ==
    [][/\ (PrepareStep /\ resp'.cached_png # NonePng)
            => BIN_LABEL_CACHE' = BIN_LABEL_CACHE
       /\ (/\ PrepareStep
           /\ resp.op = "prepare" /\ resp.status = 200
           /\ resp.cached_png # NonePng
           /\ resp'.key = resp.key
           /\ now - BIN_LABEL_CACHE[DictIndex(BIN_LABEL_CACHE, resp.key)].ts
                <= MaxAgeSec)
            => resp'.cached_png = resp.cached_png
       /\ \A i \in Gone(BIN_LABEL_CACHE, BIN_LABEL_CACHE') :
            \/ /\ PrepareStep
               /\ resp'.key = BIN_LABEL_CACHE[i].key
               /\ now - BIN_LABEL_CACHE[i].ts > MaxAgeSec
            \/ /\ PreviewStep
               /\ Len(BIN_LABEL_CACHE) >= CacheMax
               /\ \A j \in 1..Len(BIN_LABEL_CACHE') :
                    BIN_LABEL_CACHE[i].ts <= BIN_LABEL_CACHE'[j].ts
      ]_vars

\* C4's case: a prepare call hit an entry previewed at least a minute
\* earlier, and the entry is still in the store.
C4_Witness ==
    /\ resp.op = "prepare"
    /\ resp.cached_png # NonePng
    /\ \E i \in 1..Len(BIN_LABEL_CACHE) :
         /\ BIN_LABEL_CACHE[i].key = resp.key
         /\ BIN_LABEL_CACHE[i].png = resp.cached_png
         /\ now - BIN_LABEL_CACHE[i].ts >= 60

\* C3 (step part): whatever a step removes from the store is at most as
\* old as everything the step leaves in it, and a step that removes nothing
\* by age removes entries only when the store was full.
C3_EvictsOldest ==
    \A i \in Gone(BIN_LABEL_CACHE, BIN_LABEL_CACHE') :
       /\ Len(BIN_LABEL_CACHE) >= CacheMax
       /\ \A j \in 1..Len(BIN_LABEL_CACHE') :
            BIN_LABEL_CACHE[i].ts <= BIN_LABEL_CACHE'[j].ts

\* C3 (the 121 inserts): after 121 distinct texts were previewed at
\* increasing times and none twice, the 20 first are gone and the 80 last
\* are each returned by a lookup.
C3_After121 ==
    (fill.n = 121 /\ ~fill.again) =>
       /\ \A i \in 1..20 :
            KeyOfRequest(BaseRequest(Word(i))) \notin Keys(BIN_LABEL_CACHE)
       /\ \A i \in 42..121 :
            LET e == PreviewEntry(BaseRequest(Word(i)), i)
            IN  _get_cached_bin_label_png(BIN_LABEL_CACHE, e.key, now,
                                          MaxAgeSec).ret = e.png

\* C3: cache capacity: once a put has returned the store holds at most 100
\* entries, a put evicts only the entries with the oldest timestamps, and
\* after 121 distinct inserts at increasing times the 20 oldest are gone and
\* the 80 newest are retrievable.
C3_Capacity ==
    /\ [](Len(BIN_LABEL_CACHE) <= CacheMax)
    /\ []C3_After121
    /\ [][C3_EvictsOldest]_vars

\* C3's case: the 121st distinct preview has returned, after two evictions.
C3_Witness ==
    /\ fill.n = 121 /\ ~fill.again
    /\ Len(BIN_LABEL_CACHE) = CacheMax - EvictCount + 1
    /\ resp.op = "preview" /\ resp.request = BaseRequest(Word(121))

----------------------------------------------------------------------------
(* SpecGeom: GET/POST /api/preview/text (get_preview_image) serving one     *)
(* request, in two steps: the geometry is resolved, then the fixed text is  *)
(* composed.                                                                *)

\* The margin percentages (top, bottom, left, right) requests are sent with:
\* the defaults, distinct values on every side, none, and negative ones.
GeomMargins ==
    { <<24, 45, 35, 35>>, <<26, 29, 57, 0>>, <<35, 24, 45, 26>>,
      <<0, 0, 0, 0>>, <<-100, -100, -100, -100>>, <<29, 26, 0, 57>> }

GeomFontSizes == {12, 100, 180}

\* "HELLO"; a blank text; two lines.
GeomTexts == { Word(5), << <<>> >>, << <<3>>, <<4, 2>> >> }

GeomRequests ==
    { [BaseRequest(text) EXCEPT !.label_size = ls, !.orientation = o,
                                !.font_size = fs,
                                !.margin_top = m[1], !.margin_bottom = m[2],
                                !.margin_left = m[3], !.margin_right = m[4]] :
        text \in GeomTexts, ls \in label_sizes \cup {"999"},
        o \in {"standard", "rotated"}, fs \in GeomFontSizes,
        m \in GeomMargins }

\* Line 307: context = get_label_context(request); a LookupError is answered
\* with status 400 (lines 308-312).
ResolveGeometry ==
    /\ geo.pc = "received"
    /\ LET context == get_label_context(geo.request)
       IN  geo' = IF context.ok
                  THEN [pc |-> "resolved", request |-> geo.request,
                        context |-> context]
                  ELSE [pc |-> "failed", request |-> geo.request,
                        status |-> 400]
    /\ UNCHANGED <<BIN_LABEL_CACHE, now, resp, thr, written, cs, fill, media>>

\* Lines 313-323: im = create_label_im(**context), returned as PNG.
ComposeFixedText ==
    /\ geo.pc = "resolved"
    /\ geo' = [pc |-> "returned", request |-> geo.request,
               context |-> geo.context, im |-> create_label_im(geo.context),
               body |-> image_to_png_bytes(create_label_im(geo.context))]
    /\ UNCHANGED <<BIN_LABEL_CACHE, now, resp, thr, written, cs, fill, media>>

InitGeom ==
    /\ BIN_LABEL_CACHE = <<>>
    /\ now = 0
    /\ resp = Idle
    /\ thr = NoThreads
    /\ written = {}
    /\ cs = NoCall
    /\ geo \in {[pc |-> "received", request |-> r] : r \in GeomRequests}
    /\ fill = NoFill
    /\ media = NoCall

NextGeom == ResolveGeometry \/ ComposeFixedText

SpecGeom == InitGeom /\ [][NextGeom]_vars

----------------------------------------------------------------------------
(* Properties of the resolved geometry and of the fixed-text canvas *)

Resolved == geo.pc \in {"resolved", "returned"}

Endless == geo.context.kind = ENDLESS_LABEL

\* C8 as stated: the resolved geometry has width >= 1 and height >= 1 for
\* every size class and both orientations.
C8_Original ==
    Resolved => geo.context.width >= 1 /\ geo.context.height >= 1

\* C8, amended: for the die-cut size classes the resolved width and height are
\* both >= 1 in both orientations; for an endless size class the dimension the
\* catalog fixes (the width in standard, the height in rotated orientation) is
\* >= 1 and the other one is resolved as 0; the canvas composed from it is
\* at least 1 x 1.
C8_ResolvedGeometry ==
    /\ Resolved /\ ~Endless =>
           geo.context.width >= 1 /\ geo.context.height >= 1
    /\ Resolved /\ Endless /\ geo.context.orientation = "standard" =>
           geo.context.width >= 1 /\ geo.context.height = 0
    /\ Resolved /\ Endless /\ geo.context.orientation = "rotated" =>
           geo.context.width = 0 /\ geo.context.height >= 1
    /\ geo.pc = "returned" => geo.im.width >= 1 /\ geo.im.height >= 1

C8_Witness ==
    /\ geo.pc = "resolved"
    /\ geo.request.label_size = "62"
    /\ geo.request.orientation = "rotated"
    /\ geo.context.width = 0
    /\ geo.context.height = 696

\* The percentage and the resolved pixels of each side.
Sides ==
    { <<geo.request.margin_top, geo.context.margin_top>>,
      <<geo.request.margin_bottom, geo.context.margin_bottom>>,
      <<geo.request.margin_left, geo.context.margin_left>>,
      <<geo.request.margin_right, geo.context.margin_right>> }

\* C9 as stated: each pixel margin is round(font_size x fraction) of its own
\* side.
C9_Original ==
    Resolved =>
      \A sd \in Sides :
         LET mag == (2 * geo.request.font_size * Abs(sd[1]) + 100) \div 200
         IN  sd[2] = IF sd[1] >= 0 THEN mag ELSE -mag

\* C9, amended: each pixel margin is the product font_size x fraction of its
\* own side truncated toward zero, never rounded up, and one below the exact
\* product where the product is a whole number the double arithmetic falls
\* short of (100 at 29% gives 28).
C9_MarginsTruncate ==
    Resolved =>
      \A sd \in Sides :
         LET fs == geo.request.font_size
             p  == Abs(sd[1])
             m  == Abs(sd[2])
         IN  /\ (sd[1] >= 0 => sd[2] >= 0) /\ (sd[1] <= 0 => sd[2] <= 0)
             /\ 100 * m <= fs * p
             /\ fs * p <= 100 * (m + 1)
             /\ (fs * p = 100 * (m + 1)) <=> (<<fs, p>> \in FloatShort)

C9_Witness ==
    /\ geo.pc = "resolved"
    /\ geo.request.font_size = 100
    /\ geo.request.margin_top = 26 /\ geo.context.margin_top = 26
    /\ geo.request.margin_bottom = 29 /\ geo.context.margin_bottom = 28
    /\ geo.request.margin_right = 0 /\ geo.context.margin_right = 0

\* The text of the running request as Pillow measures it.
TextSize == measure(RawLines(geo.request.text), geo.request.font_size)

\* C10 as stated: on an endless size class the standard canvas is the resolved
\* width by text height + top + bottom margin, the rotated canvas is text
\* width + left + right margin by the resolved height; on a die-cut class the
\* canvas is the resolved width by the resolved height.
C10_Original ==
    geo.pc = "returned" =>
      LET c == geo.context
      IN  /\ Endless /\ c.orientation = "standard" =>
                /\ geo.im.height = TextSize[2] + c.margin_top + c.margin_bottom
                /\ geo.im.width = c.width
          /\ Endless /\ c.orientation = "rotated" =>
                /\ geo.im.width = TextSize[1] + c.margin_left + c.margin_right
                /\ geo.im.height = c.height
          /\ ~Endless => geo.im.width = c.width /\ geo.im.height = c.height

\* C10, amended: as stated, except that the recomputed dimension of an endless
\* canvas is at least 1: max(1, text height + top + bottom margin) in
\* standard, max(1, text width + left + right margin) in rotated orientation.
C10_CanvasSize ==
    geo.pc = "returned" =>
      LET c == geo.context
      IN  /\ Endless /\ c.orientation = "standard" =>
                /\ geo.im.height =
                      Max(1, TextSize[2] + c.margin_top + c.margin_bottom)
                /\ geo.im.width = c.width
          /\ Endless /\ c.orientation = "rotated" =>
                /\ geo.im.width =
                      Max(1, TextSize[1] + c.margin_left + c.margin_right)
                /\ geo.im.height = c.height
          /\ ~Endless => geo.im.width = c.width /\ geo.im.height = c.height

C10_Witness ==
    /\ geo.pc = "returned"
    /\ geo.request.label_size = "62"
    /\ geo.request.orientation = "standard"
    /\ geo.request.text = Word(5)
    /\ geo.request.font_size = 100
    /\ geo.request.margin_top = -100 /\ geo.request.margin_bottom = -100
    /\ TextSize[2] + geo.context.margin_top + geo.context.margin_bottom < 1
    /\ geo.im.width = 696
    /\ geo.im.height = 1

----------------------------------------------------------------------------
(* SpecCompose: one call of _compose_bin_label_image, step by step: the     *)
(* layout, every trial of the auto-fit loop, every pass of the overflow     *)
(* guard, the placement.                                                    *)

\* "HELLO"; a single word no zone is wide enough for; two words; a blank
\* text; two lines.
ComposeTexts ==
    { Word(5), Word(60), << <<5, 5>> >>, << <<>> >>, << <<3>>, <<4, 2>> >> }

\* No payload; a payload; a payload qrcode cannot encode.
ComposeCodes == {"", "BIN-42", "overlong"}

ComposeLabels == {"62", "29", "62x29", "d24"}

ComposeFontSizes == {10, 11, 100, 500}

ComposeRequests ==
    { [BaseRequest(text) EXCEPT !.code = code, !.label_size = ls,
                                !.orientation = o, !.font_size = fs,
                                !.qr_scale = q, !.auto_fit_text = a] :
        text \in ComposeTexts, code \in ComposeCodes, ls \in ComposeLabels,
        o \in {"standard", "rotated"}, fs \in ComposeFontSizes,
        q \in {900, 500}, a \in BOOLEAN }

Composing == <<BIN_LABEL_CACHE, now, resp, thr, written, geo, fill, media>>

\* Lines 331-466: the call up to the first measurement of the wrapped text.
ComposeCall ==
    /\ cs.pc = "received"
    /\ cs' = ComposeLayout(cs.request.text, cs.request.code,
                           get_label_context(cs.request),
                           cs.request.qr_scale, cs.request.auto_fit_text)
    /\ UNCHANGED Composing

\* Lines 474-486: one trial of the auto-fit loop.
Grow ==
    /\ cs.pc = "grow" /\ GrowCond(cs)
    /\ cs' = GrowTrial(cs)
    /\ UNCHANGED Composing

\* Line 474 false: the auto-fit loop is left.
GrowEnd ==
    /\ cs.pc = "grow" /\ ~GrowCond(cs)
    /\ cs' = ComposeStep(cs)
    /\ UNCHANGED Composing

\* Lines 493-497: one pass of the overflow guard.
Shrink ==
    /\ cs.pc = "shrink" /\ ShrinkCond(cs)
    /\ cs' = ShrinkStep(cs)
    /\ UNCHANGED Composing

\* Line 493 false: the text is placed and drawn (lines 499-507).
Place ==
    /\ cs.pc = "shrink" /\ ~ShrinkCond(cs)
    /\ cs' = PlaceText(cs)
    /\ UNCHANGED Composing

InitCompose ==
    /\ BIN_LABEL_CACHE = <<>>
    /\ now = 0
    /\ resp = Idle
    /\ thr = NoThreads
    /\ written = {}
    /\ cs \in {[pc |-> "received", request |-> r] : r \in ComposeRequests}
    /\ geo = NoCall
    /\ fill = NoFill
    /\ media = NoCall

NextCompose == ComposeCall \/ Grow \/ GrowEnd \/ Shrink \/ Place

SpecCompose == InitCompose /\ [][NextCompose]_vars

----------------------------------------------------------------------------
(* Properties of the combined composer *)

\* The wrapped text fits its zone.
Fits == cs.t_w <= cs.text_w /\ cs.t_h <= cs.text_h

\* C6 as stated: when the loops are through, the wrapped text fits its zone or
\* the font size is exactly 10.
C6_Original ==
    cs.pc = "done" => Fits \/ cs.font_size = 10

\* C6, amended: when the loops are through, the wrapped text fits its zone, or
\* the font size is exactly 10, or the overflow guard has made all its 12
\* passes (the font is then the base size reduced 12 times by a tenth, and
\* never below 10).
C6_FitGuard ==
    cs.pc = "done" =>
       /\ Fits \/ cs.font_size = 10 \/ cs.guard = 12
       /\ cs.font_size >= 10
       /\ cs.guard <= 12 /\ cs.iters <= 12

C6_Witness ==
    /\ cs.pc = "done"
    /\ cs.base_font_size = 500
    /\ cs.text = Word(60)
    /\ ~Fits
    /\ cs.guard = 12
    /\ cs.font_size = 137

\* C7: a call without a QR payload lays out with QR size 0 and gap 0, and its
\* text zone starts at the left margin and is as wide as the available width.
C7_NoQrLayout ==
    cs.pc \in {"grow", "shrink", "done"} /\ cs.code = "" =>
       /\ cs.qr_size = 0
       /\ cs.gap = 0
       /\ cs.text_x = cs.context.margin_left
       /\ cs.text_w = cs.avail_w

----------------------------------------------------------------------------
(* SpecConc: _cache_bin_label_png and _get_cached_bin_label_png called from *)
(* several request threads at once.  The interpreter runs one thread at a   *)
(* time and switches between bytecodes, so every single dict operation      *)
(* (d[k] = v, len(d), sorted(d.items()), d.pop(k, None), d.get(k)) is one   *)
(* step, and the threads' steps interleave freely.                          *)

Threads == {1, 2}

\* How many calls the threads make in all.
MaxCalls == 2

\* The time the calls are made at: an entry stored at 0 is too old.
ConcNow == 121

ConcKey(n) == [sha256 |-> n]

\* The bytes entry n was stored with; thread t stores ConcPng(CacheMax + t).
ConcPng(n) == [fmt |-> "PNG", pixels |-> n]

\* A full store: 100 entries, the first half stored at time 0, the rest at
\* time 100.
ConcCache ==
    [i \in 1..CacheMax |->
        [key |-> ConcKey(i), png |-> ConcPng(i),
         ts |-> IF 2 * i <= CacheMax THEN 0 ELSE 100]]

\* The keys the threads call with: one stored long ago (too old, and the
\* first to be evicted) and one not stored.
ConcKeys == {ConcKey(1), ConcKey(CacheMax + 1)}

IdleThread ==
    [pc |-> "idle", op |-> "none", key |-> ConcKey(0), ent |-> NonePng,
     items |-> <<>>, i |-> 0, ret |-> NonePng, raised |-> FALSE, calls |-> 0]

RECURSIVE SumCalls(_)
SumCalls(ts) ==
    IF ts = {} THEN 0
    ELSE LET t == CHOOSE x \in ts : TRUE
         IN  thr[t].calls + SumCalls(ts \ {t})

Shared == <<now, resp, cs, geo, fill, media>>

\* Line 51 in thread t: BIN_LABEL_CACHE[key] = {'png': png_bytes, 'ts': now}.
PutStore(t) ==
    /\ thr[t].pc = "idle" /\ SumCalls(Threads) < MaxCalls
    /\ \E key \in ConcKeys :
         /\ BIN_LABEL_CACHE' =
               DictSet(BIN_LABEL_CACHE, key, [png |-> ConcPng(CacheMax + t), ts |-> now])
         /\ written' = written \cup {[key |-> key, png |-> ConcPng(CacheMax + t)]}
         /\ thr' = [thr EXCEPT ![t] =
                       [IdleThread EXCEPT !.pc = "len", !.op = "put",
                                          !.key = key,
                                          !.calls = thr[t].calls + 1]]
    /\ UNCHANGED Shared

\* Line 52: if len(BIN_LABEL_CACHE) > 100; the call returns when it is not.
PutLen(t) ==
    /\ thr[t].pc = "len"
    /\ thr' = [thr EXCEPT ![t].pc =
                  IF Len(BIN_LABEL_CACHE) > CacheMax THEN "sort" ELSE "idle"]
    /\ UNCHANGED <<BIN_LABEL_CACHE, written>>
    /\ UNCHANGED Shared

\* Lines 54-55: items = sorted(BIN_LABEL_CACHE.items(), ...); items[:20].
PutSort(t) ==
    /\ thr[t].pc = "sort"
    /\ thr' = [thr EXCEPT ![t].pc = "pop", ![t].i = 1,
                          ![t].items = OldestKeys(BIN_LABEL_CACHE, EvictCount)]
    /\ UNCHANGED <<BIN_LABEL_CACHE, written>>
    /\ UNCHANGED Shared

\* Line 56: one BIN_LABEL_CACHE.pop(k, None) of the loop; the call returns
\* after the last.
PutPop(t) ==
    /\ thr[t].pc = "pop"
    /\ LET r == PopOrNone(BIN_LABEL_CACHE, thr[t].items[thr[t].i])
       IN  /\ BIN_LABEL_CACHE' = r.cache
           /\ thr' = [thr EXCEPT
                        ![t].raised = r.raised,
                        ![t].i = @ + 1,
                        ![t].pc = IF r.raised THEN "raised"
                                  ELSE IF thr[t].i = Len(thr[t].items)
                                       THEN "idle" ELSE "pop"]
    /\ UNCHANGED written
    /\ UNCHANGED Shared

\* Lines 59-61 in thread t: ent = BIN_LABEL_CACHE.get(key); None when absent.
GetLookup(t) ==
    /\ thr[t].pc = "idle" /\ SumCalls(Threads) < MaxCalls
    /\ \E key \in ConcKeys :
         LET i == DictIndex(BIN_LABEL_CACHE, key)
         IN  thr' = [thr EXCEPT ![t] =
                        [IdleThread EXCEPT
                            !.op = "get", !.key = key,
                            !.calls = thr[t].calls + 1,
                            !.pc = IF i = 0 THEN "idle" ELSE "age",
                            !.ent = IF i = 0 THEN NonePng
                                    ELSE BIN_LABEL_CACHE[i]]]
    /\ UNCHANGED <<BIN_LABEL_CACHE, written>>
    /\ UNCHANGED Shared

\* Lines 62, 65: the age test; a young entry's bytes are returned.
GetAge(t) ==
    /\ thr[t].pc = "age"
    /\ thr' = IF Expired(now, thr[t].ent.ts, MaxAgeSec)
              THEN [thr EXCEPT ![t].pc = "expire"]
              ELSE [thr EXCEPT ![t].pc = "idle", ![t].ret = thr[t].ent.png]
    /\ UNCHANGED <<BIN_LABEL_CACHE, written>>
    /\ UNCHANGED Shared

\* Lines 63-64: BIN_LABEL_CACHE.pop(key, None); return None.
GetExpire(t) ==
    /\ thr[t].pc = "expire"
    /\ LET r == PopOrNone(BIN_LABEL_CACHE, thr[t].key)
       IN  /\ BIN_LABEL_CACHE' = r.cache
           /\ thr' = [thr EXCEPT ![t].raised = r.raised,
                                 ![t].pc = IF r.raised THEN "raised"
                                           ELSE "idle"]
    /\ UNCHANGED written
    /\ UNCHANGED Shared

InitConc ==
    /\ BIN_LABEL_CACHE = ConcCache
    /\ now = ConcNow
    /\ resp = Idle
    /\ thr = [t \in Threads |-> IdleThread]
    /\ written = {[key |-> ConcCache[i].key, png |-> ConcCache[i].png] :
                    i \in 1..CacheMax}
    /\ cs = NoCall
    /\ geo = NoCall
    /\ fill = NoFill
    /\ media = NoCall

NextConc ==
    \E t \in Threads :
       \/ PutStore(t) \/ PutLen(t) \/ PutSort(t) \/ PutPop(t)
       \/ GetLookup(t) \/ GetAge(t) \/ GetExpire(t)

SpecConc == InitConc /\ [][NextConc]_vars

----------------------------------------------------------------------------
(* Properties of the cache under concurrent calls *)

\* C5: under every interleaving of the steps of concurrent puts and gets, no
\* call raises, every entry a get works on or the store holds is a whole
\* entry that was put for its key, and every get that has returned returned
\* None or the bytes of a value put for its key.
C5_ConcurrentSafe ==
    /\ \A t \in Threads :
          /\ ~thr[t].raised
          /\ thr[t].pc # "raised"
          /\ thr[t].pc \in {"age", "expire"} =>
                /\ thr[t].ent.key = thr[t].key
                /\ [key |-> thr[t].key, png |-> thr[t].ent.png] \in written
          /\ thr[t].pc = "idle" /\ thr[t].op = "get" =>
                \/ thr[t].ret = NonePng
                \/ [key |-> thr[t].key, png |-> thr[t].ret] \in written
    /\ \A i \in 1..Len(BIN_LABEL_CACHE) :
          [key |-> BIN_LABEL_CACHE[i].key, png |-> BIN_LABEL_CACHE[i].png]
             \in written

\* Two evictions run at once, each well into the same list of oldest keys.
C5_Witness ==
    /\ thr[1].pc = "pop" /\ thr[1].i > 1
    /\ thr[2].pc = "pop" /\ thr[2].i > 1
    /\ thr[1].items = thr[2].items

----------------------------------------------------------------------------
(* SpecTerminate: one call of _compose_bin_label_image, for the requests of *)
(* SpecCompose and for base font sizes at and below 10, where              *)
(* int(size * 1.12) and max(10, int(size * 0.9)) can leave the size as it  *)
(* is.                                                                     *)

SmallFontSizes == {1, 8, 9, 10}

TerminateRequests ==
    ComposeRequests \cup
    { [BaseRequest(text) EXCEPT !.code = code, !.label_size = ls,
                                !.orientation = o, !.font_size = fs,
                                !.auto_fit_text = a] :
        text \in ComposeTexts, code \in {"", "BIN-42"}, ls \in ComposeLabels,
        o \in {"standard", "rotated"}, fs \in SmallFontSizes, a \in BOOLEAN }

InitTerminate ==
    /\ BIN_LABEL_CACHE = <<>>
    /\ now = 0
    /\ resp = Idle
    /\ thr = NoThreads
    /\ written = {}
    /\ cs \in {[pc |-> "received", request |-> r] : r \in TerminateRequests}
    /\ geo = NoCall
    /\ fill = NoFill
    /\ media = NoCall

SpecTerminate == InitTerminate /\ [][NextCompose]_vars

\* How far the call has come: the place it has reached, then the trials made.
Progress ==
    IF cs.pc = "received" THEN 0
    ELSE (IF cs.pc = "grow" THEN 100 ELSE IF cs.pc = "shrink" THEN 200
          ELSE 300) + cs.iters + cs.guard

\* The call is at a place a step leaves from (ComposeCall; Grow or GrowEnd;
\* Shrink or Place, whose conditions are each other's negation) or at its end.
C11_NotStuck == cs.pc \in {"received", "grow", "shrink", "done"}

\* The loops' counters stay within their caps.
C11_Counters ==
    cs.pc \in {"grow", "shrink", "done"} =>
       cs.iters \in 0..12 /\ cs.guard \in 0..12

\* Every font trial is counted: a step that stays in a loop, or leaves it
\* after a trial, moves that loop's counter up by one, and no step goes back
\* to an earlier loop.
C11_Trial ==
    /\ cs.pc = "grow" /\ GrowCond(cs) =>
          cs'.iters = cs.iters + 1 /\ cs'.pc \in {"grow", "shrink"}
    /\ cs.pc = "grow" /\ ~GrowCond(cs) =>
          cs'.iters = cs.iters /\ cs'.pc = "shrink"
    /\ cs.pc = "shrink" /\ ShrinkCond(cs) =>
          cs'.guard = cs.guard + 1 /\ cs'.pc = "shrink"
                                   /\ cs'.iters = cs.iters
    /\ cs.pc = "shrink" /\ ~ShrinkCond(cs) =>
          cs'.pc = "done" /\ cs'.guard = cs.guard /\ cs'.iters = cs.iters
    /\ cs.pc = "done" => cs'.pc = "done"

\* C11: every call of _compose_bin_label_image comes to its end after at
\* most 12 font trials of the auto-fit loop and at most 12 of the overflow
\* guard, whatever the text, the font size (sizes at or below 10 included)
\* and the geometry: the counters stay within 12, every trial is counted,
\* every step takes the call further, and the call is never stuck before its
\* end.
C11_BoundedIterations ==
    /\ [](C11_Counters /\ C11_NotStuck)
    /\ [][C11_Trial /\ Progress' > Progress]_vars

\* The auto-fit loop made its 12 trials without the size changing.
C11_Witness ==
    /\ cs.pc = "done"
    /\ cs.base_font_size = 8
    /\ cs.font_size = 8
    /\ cs.iters = 12

----------------------------------------------------------------------------
(* _map_media_to_label_identifier: the media a printer reports, mapped to a *)
(* catalog identifier.                                                      *)

Digits == {"0", "1", "2", "3", "4", "5", "6", "7", "8", "9"}

DigitValue(c) ==
    CASE c = "0" -> 0 [] c = "1" -> 1 [] c = "2" -> 2 [] c = "3" -> 3
      [] c = "4" -> 4 [] c = "5" -> 5 [] c = "6" -> 6 [] c = "7" -> 7
      [] c = "8" -> 8 [] c = "9" -> 9

\* str.split('x'): the pieces between the x's.
RECURSIVE SplitX(_, _)
SplitX(chars, piece) ==
    IF chars = <<>> THEN <<piece>>
    ELSE IF Head(chars) = "x" THEN <<piece>> \o SplitX(Tail(chars), <<>>)
    ELSE SplitX(Tail(chars), Append(piece, Head(chars)))

\* str.replace('d', '')
RemoveD(chars) == SelectSeq(chars, LAMBDA c : c # "d")

\* str.isdigit(): not empty and digits only.
IsDigit(chars) == chars # <<>> /\ \A i \in 1..Len(chars) : chars[i] \in Digits

\* int(str) of a string of digits.
RECURSIVE ToInt(_)
ToInt(chars) ==
    IF chars = <<>> THEN 0
    ELSE 10 * ToInt(SubSeq(chars, 1, Len(chars) - 1))
           + DigitValue(chars[Len(chars)])

\* 'x' in ident
HasX(ident) == \E i \in 1..Len(IdentChars(ident)) : IdentChars(ident)[i] = "x"

\* 'red' in ident
HasRed(ident) ==
    LET chars == IdentChars(ident)
    IN  \E i \in 1..(Len(chars) - 2) :
           chars[i] = "r" /\ chars[i + 1] = "e" /\ chars[i + 2] = "d"

\* The media types interpret_response reports, and '' for none.
MediaTypes == {"Continuous length tape", "Die-cut labels", ""}

\* 'Continuous' in media_type
SaysContinuous(media_type) == media_type = "Continuous length tape"

\* 'Die-cut' in media_type
SaysDieCut(media_type) == media_type = "Die-cut labels"

\* Lines 174-177: the form factor of the entry does not contradict the media
\* type.
KindOk(ident, media_type) ==
    LET kind == label_type_specs[ident].kind
    IN  /\ ~(SaysContinuous(media_type) /\ kind # ENDLESS_LABEL)
        /\ ~(SaysDieCut(media_type) /\ kind = ENDLESS_LABEL)

\* Lines 183-189: the catalog's tape_size is a (width, length) pair, not a
\* number, so the width is read from the identifier: the piece before the
\* first x, without its d's.
WidthOk(ident, media_width_mm) ==
    LET head == RemoveD(SplitX(IdentChars(ident), <<>>)[1])
    IN  IsDigit(head) /\ ToInt(head) = media_width_mm

\* Lines 195-205: a die-cut entry whose identifier names a length must name
\* the reported one, when one is reported.
LengthOk(ident, media_length_mm) ==
    IF label_type_specs[ident].kind # ENDLESS_LABEL /\ media_length_mm # 0
    THEN LET pieces == SplitX(IdentChars(ident), <<>>)
         IN  IF HasX(ident) /\ IsDigit(pieces[2])
             THEN ToInt(pieces[2]) = media_length_mm
             ELSE TRUE
    ELSE TRUE

\* Mutant: the form factor is not compared with the media type.
CandidateAnyKind(ident, media_width_mm, media_length_mm, media_type) ==
    /\ WidthOk(ident, media_width_mm)
    /\ LengthOk(ident, media_length_mm)

\* Lines 171-206: whether the entry is appended to candidates.
Candidate(ident, media_width_mm, media_length_mm, media_type) ==
    /\ KindOk(ident, media_type)
    /\ WidthOk(ident, media_width_mm)
    /\ LengthOk(ident, media_length_mm)

\* Python's None, as a value of the kind identifiers are.
NoIdent == "None"

_map_media_to_label_identifier(media_width_mm, media_length_mm, media_type) ==
    LET candidates == SelectSeq(label_order,
                         LAMBDA ident : Candidate(ident, media_width_mm,
                                            media_length_mm, media_type))
        endless == SelectSeq(candidates, LAMBDA c : ~HasX(c))
        std     == SelectSeq(endless, LAMBDA c : ~HasRed(c))
    IN  IF candidates = <<>> THEN NoIdent
        ELSE IF endless # <<>>
             THEN (IF std # <<>> THEN std[1] ELSE endless[1])
             ELSE candidates[1]

----------------------------------------------------------------------------
(* SpecMedia: autodetect_media_label has read a status and maps it. *)

\* The widths and lengths (mm) a status reports; 0 is no length (continuous).
MediaWidths == {12, 17, 23, 24, 29, 38, 39, 50, 54, 58, 62, 99, 102}

MediaLengths == {0, 12, 24, 29, 48, 54, 87, 90, 100, 152}

\* Line 240: the mapping of the reported media is returned.
MapMedia ==
    /\ media.pc = "read"
    /\ media' = [media EXCEPT !.pc = "returned",
                    !.ret = _map_media_to_label_identifier(
                               media.media_width, media.media_length,
                               media.media_type)]
    /\ UNCHANGED <<BIN_LABEL_CACHE, now, resp, thr, written, cs, geo, fill>>

InitMedia ==
    /\ BIN_LABEL_CACHE = <<>>
    /\ now = 0
    /\ resp = Idle
    /\ thr = NoThreads
    /\ written = {}
    /\ cs = NoCall
    /\ geo = NoCall
    /\ fill = NoFill
    /\ media \in [pc : {"read"}, media_width : MediaWidths,
                  media_length : MediaLengths, media_type : MediaTypes,
                  ret : {NoIdent}]

NextMedia == MapMedia

SpecMedia == InitMedia /\ [][NextMedia]_vars

\* The catalog entries that match what is reported: the form factor the
\* media type says, the width the identifier names, and for a die-cut
\* identifier that names a length, the reported length when there is one.
Surviving ==
    { ident \in label_sizes :
        /\ KindOk(ident, media.media_type)
        /\ WidthOk(ident, media.media_width)
        /\ LengthOk(ident, media.media_length) }

----------------------------------------------------------------------------
(* SpecError: the bin-label handlers, one request at a time, on a store that *)
(* starts empty, with requests among them that name a size class the        *)
(* catalog does not have or a font that is not installed.                   *)

ErrorRequests ==
    { BaseRequest(Word(5)),
      [BaseRequest(<< <<5, 5>> >>) EXCEPT !.code = "BIN-42",
                                          !.label_size = "62x29"],
      [BaseRequest(Word(5)) EXCEPT !.label_size = "999"],
      [BaseRequest(Word(5)) EXCEPT !.font_family = "Comic Sans (Bold)"],
      [BaseRequest(Word(60)) EXCEPT !.label_size = "62x30",
                                    !.font_family = "DejaVu Serif"] }

ErrPreview == \E request \in ErrorRequests :
                  preview_bin_label(request, now) /\ UNCHANGED fill

ErrPrepare == \E request \in ErrorRequests :
                  prepare_bin_label(request, now) /\ UNCHANGED fill

InitError ==
    /\ BIN_LABEL_CACHE = <<>>
    /\ now = 1
    /\ resp = Idle
    /\ thr = NoThreads
    /\ written = {}
    /\ cs = NoCall
    /\ geo = NoCall
    /\ fill = NoFill
    /\ media = NoCall

NextError == ErrPreview \/ ErrPrepare \/ ClockTick

SpecError == InitError /\ [][NextError]_vars

\* The request names a size class or a font that cannot be resolved.
Unresolvable(request) ==
    request.label_size \notin label_sizes \/ request.font_family \notin FONTS

\* The last response is the one to an unresolvable request: status 400 and
\* nothing composed (no image, no key, no raster data).
C13_ErrorResult ==
    resp.op \in {"preview", "prepare"} =>
       IF Unresolvable(resp.request)
       THEN resp.status = 400 /\ DOMAIN resp = {"op", "status", "request"}
       ELSE resp.status = 200

\* A step that answers an unresolvable request leaves the store as it was.
C13_StoreKept ==
    resp'.op \in {"preview", "prepare"} /\ Unresolvable(resp'.request)
       /\ now' = now
       => BIN_LABEL_CACHE' = BIN_LABEL_CACHE

\* C13: a preview or prepare request naming a size class absent from the
\* catalog, or a font that cannot be resolved, is answered with status 400,
\* nothing is composed, and the composition cache is left exactly as it was.
C13_LookupFailure == []C13_ErrorResult /\ [][C13_StoreKept]_vars

C13_Witness ==
    /\ resp.op = "prepare"
    /\ resp.status = 400
    /\ resp.request.font_family = "Comic Sans (Bold)"
    /\ Len(BIN_LABEL_CACHE) = 2

----------------------------------------------------------------------------
(* Properties of the fixed-text placement *)

DieCut == geo.context.kind \in {DIE_CUT_LABEL, ROUND_DIE_CUT_LABEL}

Rotated == geo.pc = "returned" /\ geo.context.orientation = "rotated"

\* C14 as stated: in rotated orientation the horizontal offset of a die-cut
\* label is (width - textWidth)/2 + (marginLeft - marginRight)/2 and the
\* vertical offset is max((height - textHeight)/2, 0) for every kind.
C14_Original ==
    Rotated =>
       LET c == geo.context
       IN  /\ DieCut => geo.im.horizontal_offset =
                 FloorDiv(geo.im.width - TextSize[1], 2)
                    + FloorDiv(c.margin_left - c.margin_right, 2)
           /\ geo.im.vertical_offset =
                 Max(FloorDiv(geo.im.height - TextSize[2], 2), 0)

\* C14, amended: in rotated orientation the margin bias stays on the vertical
\* axis: the vertical offset is (height - textHeight)//2 + (marginTop -
\* marginBottom)//2 for every kind (it can be negative), and the horizontal
\* offset is max((width - textWidth)//2, 0) for die-cut kinds and marginLeft
\* for an endless label.
C14_RotatedPlacement ==
    Rotated =>
       LET c == geo.context
       IN  /\ geo.im.vertical_offset =
                 FloorDiv(geo.im.height - TextSize[2], 2)
                    + FloorDiv(c.margin_top - c.margin_bottom, 2)
           /\ DieCut => geo.im.horizontal_offset =
                 Max(FloorDiv(geo.im.width - TextSize[1], 2), 0)
           /\ ~DieCut => geo.im.horizontal_offset = c.margin_left

C14_Witness ==
    /\ Rotated
    /\ geo.request.label_size = "62x29"
    /\ geo.request.font_size = 100
    /\ geo.request.text = Word(5)
    /\ geo.request.margin_top = 26 /\ geo.request.margin_bottom = 29
    /\ geo.im.width = 271 /\ geo.im.height = 696
    /\ geo.im.horizontal_offset = 10
    /\ geo.im.vertical_offset = 297

----------------------------------------------------------------------------
(* Properties of the QR block and of the first auto-fit step *)

LaidOut == cs.pc \in {"grow", "shrink", "done"}

\* C15: with a QR block in standard orientation the QR side is at most the
\* available height and at most 60% of the available width, and the text zone
\* (available width minus QR side minus the 8 px gap) is at least 40% of the
\* available width; in rotated orientation the QR side is limited by the
\* available height only.
C15_QrCap ==
    LaidOut /\ cs.has_qr =>
       /\ cs.qr_size <= cs.avail_h
       /\ cs.context.orientation = "standard" =>
             /\ 10 * cs.qr_size <= 6 * cs.avail_w
             /\ cs.text_w = cs.avail_w - cs.qr_size - 8
             /\ 10 * cs.text_w >= 4 * cs.avail_w

----------------------------------------------------------------------------
(* SpecAutoFit: one call of _compose_bin_label_image per behaviour, with   *)
(* base font sizes on both sides of the point where the text at the base   *)
(* size just fills the cross height of the tape.                           *)

AutoFitFontSizes == {1, 9, 10, 100, 178, 180, 186, 410}

AutoFitTexts == { Word(5), << <<>> >>, << <<3>>, <<4, 2>> >>,
                  << <<3>>, <<4>>, <<2>> >> }

AutoFitRequests ==
    { [BaseRequest(text) EXCEPT !.code = code, !.label_size = ls,
                                !.orientation = o, !.font_size = fs,
                                !.auto_fit_text = a] :
        text \in AutoFitTexts, code \in {"", "BIN-42"},
        ls \in {"62", "29", "62x29"},
        o \in {"standard", "rotated"}, fs \in AutoFitFontSizes, a \in BOOLEAN }

InitAutoFit ==
    /\ BIN_LABEL_CACHE = <<>>
    /\ now = 0
    /\ resp = Idle
    /\ thr = NoThreads
    /\ written = {}
    /\ cs \in {[pc |-> "received", request |-> r] : r \in AutoFitRequests}
    /\ geo = NoCall
    /\ fill = NoFill
    /\ media = NoCall

SpecAutoFit == InitAutoFit /\ [][NextCompose]_vars

\* The text height measured at the base font size (lines 338-345).
BaseTextHeight == measure(RawLines(cs.text), cs.base_font_size)[2]

\* available_cross_h (line 351).
AvailableCross ==
    Max(1, cs.context.height - cs.context.margin_top
                             - cs.context.margin_bottom)

\* base * min(3.0, available / textHeight) * 0.98, in whole pixels.
ScaledBase ==
    LET m == Max(1, BaseTextHeight)
    IN  IF AvailableCross >= 3 * m
        THEN (cs.base_font_size * 294) \div 100
        ELSE (cs.base_font_size * AvailableCross * 98) \div (m * 100)

\* C16: when auto-fit is on, the label is endless and the text at the base
\* size is lower than the available cross height, the first auto-fit step
\* sets the font size to base * min(3.0, available / textHeight) * 0.98 and
\* never below the base size; otherwise the font size stays the base size.
C16_InitialAutoFit ==
    LaidOut =>
       IF /\ cs.auto_fit_text
          /\ cs.context.kind = ENDLESS_LABEL
          /\ BaseTextHeight < AvailableCross
       THEN /\ cs.first_size = ScaledBase
            /\ cs.first_size >= cs.base_font_size
       ELSE cs.first_size = cs.base_font_size

----------------------------------------------------------------------------
(* The cache fingerprint against the composition *)

\* What _compose_bin_label_image draws for the request's own parameters.
Composed(request) ==
    _compose_bin_label_image(request.text, request.code,
                             get_label_context(request), request.qr_scale,
                             request.auto_fit_text)

\* C17: the fingerprint covers every parameter the composition depends on:
\* two requests with the same fingerprint compose to the same image, and the
\* image prepare_bin_label takes from the cache is the one the composer draws
\* for the prepare request's own parameters.
C17_FingerprintCovers ==
    /\ \A r1, r2 \in Requests :
         KeyOfRequest(r1) = KeyOfRequest(r2) => Composed(r1) = Composed(r2)
    /\ (resp.op = "prepare" /\ resp.status = 200
                            /\ resp.cached_png # NonePng)
          => resp.body.im = Composed(resp.request)

====
